---- MODULE Spec2Model ----
(***************************************************************************)
(* The crossword CSP solver of week3/crossword/generate.py                 *)
(* (class CrosswordCreator): node consistency, revise, ac3, the variable   *)
(* and value ordering heuristics, consistent and backtrack.                *)
(*                                                                         *)
(* Words are sequences of one-character strings; Python's 0-based index    *)
(* w[i] is Char(w, i).  Python sets and the dict self.domains iterate in   *)
(* an order the program does not control: the dict order is drawn once     *)
(* (order), a set's order is drawn wherever the code iterates one and the  *)
(* order can be observed.                                                  *)
(***************************************************************************)
EXTENDS Integers, Sequences, FiniteSets, TLC

VARIABLES
    crossword,  \* self.crossword: [variables, words, iteration], read-only after
                \* construction; iteration[v] is the order in which the set
                \* neighbors(v) is iterated, the same at every call
    order,      \* iteration order of the dict self.domains (a sequence of variables)
    domains,    \* self.domains: variable -> set of words
    pc,         \* where the caller of the object is
    queue,      \* ac3's local list of arcs
    ac3ret,     \* what the last ac3 call returned (or raised)
    stack,      \* the active calls of backtrack, innermost last
    result,     \* what the outermost backtrack (and so solve) returned
    last        \* the last method call made on the object: arguments and return value

vars == <<crossword, order, domains, pc, queue, ac3ret, stack, result, last>>

----------------------------------------------------------------------------
(* Bounds of the model *)

\* the largest number of words in the word list
MaxWords == 3

\* the largest number of words in the word list when the methods are called
\* in any order (SpecApi)
MaxApiWords == 2

\* letters words are made of
Alphabet == {"a", "b"}

\* word lengths present in the word list
Lengths == {2, 3}

----------------------------------------------------------------------------
(* Grid Model: crossword.Variable and crossword.Crossword *)

ACROSS == "across"
DOWN == "down"

Variable(i, j, direction, length) ==
    [i |-> i, j |-> j, direction |-> direction, length |-> length]

\* Variable.cells: the cells of a slot, in word order
Cells(v) ==
    [k \in 1..v.length |->
        <<v.i + (IF v.direction = DOWN THEN k - 1 ELSE 0),
          v.j + (IF v.direction = ACROSS THEN k - 1 ELSE 0)>>]

CellSet(v) == {Cells(v)[k] : k \in 1..v.length}

(* The structures the model is run on ('_' open, '#' blocked):             *)
(*   Grid0: "#"      Grid1: "___"                                          *)
(*   Grid2: "___"    Grid3: "_#"     Grid4: "___"                          *)
(*          "#_#"           "_#"            "_#_"                          *)
(*          "#_#"           "__"            "_##"                          *)
Grid0 == {}
Grid1 == {Variable(0, 0, ACROSS, 3)}
Grid2 == {Variable(0, 0, ACROSS, 3), Variable(0, 1, DOWN, 3)}
Grid3 == {Variable(2, 0, ACROSS, 2), Variable(0, 0, DOWN, 3)}
Grid4 == {Variable(0, 0, ACROSS, 3), Variable(0, 0, DOWN, 3), Variable(0, 2, DOWN, 2)}

Grids == {Grid0, Grid1, Grid2, Grid3, Grid4}

AllVariables == UNION Grids

\* Python's None
None == "None"

\* overlaps[x, y] = None: the two slots share no cell
NoOverlap == <<>>

\* the entry of Crossword.overlaps for (x, y), as Crossword.__init__ computes it:
\* None, or the 0-based indices of the shared cell in x and in y
ComputeOverlap(x, y) ==
    IF x = y \/ CellSet(x) \cap CellSet(y) = {}
    THEN NoOverlap
    ELSE LET c == CHOOSE c \in CellSet(x) \cap CellSet(y) : TRUE
         IN  <<(CHOOSE k \in 1..x.length : Cells(x)[k] = c) - 1,
               (CHOOSE k \in 1..y.length : Cells(y)[k] = c) - 1>>

\* Crossword.overlaps, the table built once at construction
OverlapTable == [p \in AllVariables \X AllVariables |-> ComputeOverlap(p[1], p[2])]

Overlaps(x, y) == OverlapTable[<<x, y>>]

\* Crossword.neighbors(var)
Neighbors(cw, var) ==
    {v \in cw.variables : v # var /\ Overlaps(v, var) # NoOverlap}

\* every word a word list may hold
Pool == UNION {[1..n -> Alphabet] : n \in Lengths}

WordLists(n) == {W \in SUBSET Pool : Cardinality(W) <= n}

\* w[i] of Python (0-based)
Char(w, i) == w[i + 1]

\* the orders a set can be iterated in
Perms(S) ==
    {s \in [1..Cardinality(S) -> S] : \A a, b \in 1..Cardinality(S) : a # b => s[a] # s[b]}

Range(s) == {s[k] : k \in 1..Len(s)}

----------------------------------------------------------------------------
(* CrosswordCreator *)

\* the orders in which the sets neighbors(v) of a grid can be iterated
NeighborIterations(g) ==
    LET lists == UNION {Perms(Neighbors([variables |-> g], u)) : u \in g}
    IN  {it \in [g -> lists] :
            \A v \in g : it[v] \in Perms(Neighbors([variables |-> g], v))}

\* `for n in self.crossword.neighbors(var)`: the neighbors in iteration order
NeighborList(cw, var) == cw.iteration[var]

\* __init__: every variable starts with the whole word list
InitDomains(cw) == [var \in cw.variables |-> cw.words]

NoCall == [op |-> "none"]

\* an assignment: a dict from variables to words
EmptyAssignment == [v \in {} |-> <<>>]

Unset == [ret |-> "unset", assignment |-> EmptyAssignment]

\* the object as constructed, for a word list of at most n words
Construct(n) ==
    /\ \E g \in Grids, W \in WordLists(n) :
        \E it \in NeighborIterations(g) :
            crossword = [variables |-> g, words |-> W, iteration |-> it]
    /\ order \in Perms(crossword.variables)
    /\ domains = InitDomains(crossword)
    /\ pc = "new"
    /\ queue = <<>>
    /\ ac3ret = "unset"
    /\ stack = <<>>
    /\ result = Unset
    /\ last = NoCall

Init == Construct(MaxWords)

InitApi == Construct(MaxApiWords)

\* for the methods that never iterate the dict self.domains: one dict order
InitOrdered ==
    /\ Init
    /\ order = (CHOOSE s \in Perms(crossword.variables) : TRUE)
    /\ crossword.iteration =
         (CHOOSE it \in NeighborIterations(crossword.variables) : TRUE)

\* a node consistency that keeps the words that are too short
NodeConsistent_KeepShorter(cw, doms) ==
    [var \in DOMAIN doms |-> {word \in doms[var] : ~(Len(word) > var.length)}]

\* enforce_node_consistency: the domains it leaves
NodeConsistent(cw, doms) ==
    [var \in DOMAIN doms |-> {word \in doms[var] : ~(Len(word) # var.length)}]

enforce_node_consistency ==
    /\ pc = "new"
    /\ domains' = NodeConsistent(crossword, domains)
    /\ pc' = "node"
    /\ last' = [op |-> "enforce_node_consistency", pre |-> domains]
    /\ UNCHANGED <<crossword, order, queue, ac3ret, stack, result>>

\* Python truthiness of an int: `if xoverlap:` is false for 0
Truthy(n) == n # 0

\* a revise that keeps y's matched words in x's domain: x and y swapped
Matched_Swapped(doms, x, y, xoverlap, yoverlap) ==
    {yword \in doms[y] :
        \E xword \in doms[x] : Char(xword, xoverlap) = Char(yword, yoverlap)}

\* a revise with the test inverted: it keeps the words nothing matches
Matched_Unmatched(doms, x, y, xoverlap, yoverlap) ==
    {xword \in doms[x] :
        ~ \E yword \in doms[y] : Char(xword, xoverlap) = Char(yword, yoverlap)}

\* the words of x's domain that revise keeps: those matched by a word of y's domain
Matched(doms, x, y, xoverlap, yoverlap) ==
    {xword \in doms[x] :
        \E yword \in doms[y] : Char(xword, xoverlap) = Char(yword, yoverlap)}

\* a revise that also takes out of y's domain the words no word of x matches
revise_BothSides(doms, x, y) ==
    IF Overlaps(x, y) = NoOverlap
    THEN [domains |-> doms, ret |-> FALSE, raised |-> "TypeError"]
    ELSE LET xoverlap == Overlaps(x, y)[1]
             yoverlap == Overlaps(x, y)[2]
             kept == IF Truthy(xoverlap)
                     THEN Matched(doms, x, y, xoverlap, yoverlap)
                     ELSE doms[x]
             kept_y == IF Truthy(xoverlap)
                       THEN {yword \in doms[y] :
                               \E xword \in doms[x] :
                                   Char(xword, xoverlap) = Char(yword, yoverlap)}
                       ELSE doms[y]
         IN  [domains |-> [doms EXCEPT ![x] = kept, ![y] = kept_y],
              ret |-> (kept # doms[x]), raised |-> None]

\* revise(x, y): the domains it leaves and what it returns
\* (unpacking overlaps[x, y] = None raises TypeError)
revise(doms, x, y) ==
    IF Overlaps(x, y) = NoOverlap
    THEN [domains |-> doms, ret |-> FALSE, raised |-> "TypeError"]
    ELSE LET xoverlap == Overlaps(x, y)[1]
             yoverlap == Overlaps(x, y)[2]
             kept == IF Truthy(xoverlap)
                     THEN Matched(doms, x, y, xoverlap, yoverlap)
                     ELSE doms[x]
         IN  [domains |-> [doms EXCEPT ![x] = kept],
              ret |-> (kept # doms[x]), raised |-> None]

ReviseCallRecord(x, y, pre, r) ==
    [op |-> "revise", x |-> x, y |-> y, pre |-> pre, ret |-> r.ret, raised |-> r.raised]

\* every ordered pair of neighbors
Arcs(cw) ==
    {<<variable1, variable2>> \in cw.variables \X cw.variables :
        variable2 \in Neighbors(cw, variable1)}

\* ac3's initial queue when no arcs are given: variable1 in dict order, and for
\* each variable1 its neighbors in the order the set yields them
RECURSIVE InitialQueue(_, _)
InitialQueue(cw, ord) ==
    IF Len(ord) = 0 THEN <<>>
    ELSE LET variable1 == Head(ord)
             from1 == [k \in 1..Len(NeighborList(cw, variable1)) |->
                        <<variable1, NeighborList(cw, variable1)[k]>>]
         IN  from1 \o InitialQueue(cw, Tail(ord))

\* the argument arcs: the default None, or a list of arcs
ArcsNone == [given |-> FALSE, list |-> <<>>]
ArcsList(l) == [given |-> TRUE, list |-> l]

\* the test written as `if arcs:`
NotArcs_Inverted(arcs) == arcs.given /\ Len(arcs.list) # 0

\* `not arcs`: None and the empty list are both falsy
NotArcs(arcs) == ~arcs.given \/ Len(arcs.list) = 0

\* a call on the object can be made once the previous one returned
Idle == pc \in {"node", "ac3ret"}

\* ac3(arcs), up to the first test of the while loop.  With arcs given and
\* non-empty, `queue` is never bound and `len(queue)` raises UnboundLocalError
ac3_call(arcs) ==
    /\ last' = [op |-> "ac3", arcs |-> arcs, pre |-> domains, prev |-> ac3ret]
    /\ IF NotArcs(arcs)
       THEN /\ queue' = InitialQueue(crossword, order)
            /\ pc' = "ac3"
            /\ ac3ret' = "running"
       ELSE /\ queue' = <<>>
            /\ pc' = "ac3ret"
            /\ ac3ret' = "UnboundLocalError"
    /\ UNCHANGED <<crossword, order, domains, stack, result>>

\* the arcs appended after revise(x, y) shrank x's domain
Appended(cw, x, y) ==
    LET Other(neighbour) == neighbour # y
        others == SelectSeq(NeighborList(cw, x), Other)
    IN  [k \in 1..Len(others) |-> <<others[k], x>>]

\* a while body that returns whether the revise removed a word
Ac3Result_ReturnRevised(revised, x_domain) ==
    IF revised THEN "True" ELSE "False"

\* the return that ends the while body, with the emptiness test inverted
Ac3Result_InvertedEmpty(revised, x_domain) ==
    IF revised /\ Cardinality(x_domain) # 0 THEN "False" ELSE "True"

\* the return that ends the while body: False from inside `if self.revise(x, y)`
\* when x's domain is empty, else the `return True` at the end of the body
Ac3Result(revised, x_domain) ==
    IF revised /\ Cardinality(x_domain) = 0 THEN "False" ELSE "True"

\* the record of the revise call made by an ac3 call; prev is what the ac3
\* call before this one returned
NestedReviseRecord(x, y, pre, r, call) ==
    [op |-> "revise", x |-> x, y |-> y, pre |-> pre, ret |-> r.ret,
     raised |-> r.raised, prev |-> call.prev]

\* one pass of the while body: pop, revise, and the return that ends the body
ac3_iterate ==
    /\ pc = "ac3"
    /\ Len(queue) > 0
    /\ LET x == Head(queue)[1]
           y == Head(queue)[2]
           r == revise(domains, x, y)
       IN  /\ domains' = r.domains
           /\ last' = NestedReviseRecord(x, y, domains, r, last)
           /\ ac3ret' = Ac3Result(r.ret, r.domains[x])
           /\ IF r.ret = TRUE /\ Cardinality(r.domains[x]) # 0
              THEN queue' = Tail(queue) \o Appended(crossword, x, y)
              ELSE queue' = Tail(queue)
    /\ pc' = "ac3ret"
    /\ UNCHANGED <<crossword, order, stack, result>>

\* the while test fails: the function ends without a return statement
ac3_exit ==
    /\ pc = "ac3"
    /\ Len(queue) = 0
    /\ ac3ret' = None
    /\ pc' = "ac3ret"
    /\ UNCHANGED <<crossword, order, domains, queue, stack, result, last>>

\* revise(x, y) called directly
revise_call(x, y) ==
    /\ Idle
    /\ LET r == revise(domains, x, y)
       IN  /\ domains' = r.domains
           /\ last' = ReviseCallRecord(x, y, domains, r)
    /\ UNCHANGED <<crossword, order, pc, queue, ac3ret, stack, result>>

\* the values ac3 can be given for arcs
ArcArgs(cw) == {ArcsNone, ArcsList(<<>>)} \cup {ArcsList(<<a>>) : a \in Arcs(cw)}

----------------------------------------------------------------------------
(* Backtracking search *)

\* e put into the sorted list s, behind every element whose key is not larger
RECURSIVE Insert(_, _, _)
Insert(s, e, key) ==
    IF Len(s) = 0 THEN <<e>>
    ELSE IF key[e] < key[Head(s)] THEN <<e>> \o s
    ELSE <<Head(s)>> \o Insert(Tail(s), e, key)

\* sorted(p, key=...): Python's sort is stable (equal keys keep p's order)
RECURSIVE StableSort(_, _)
StableSort(p, key) ==
    IF Len(p) = 0 THEN <<>>
    ELSE Insert(StableSort(SubSeq(p, 1, Len(p) - 1), key), p[Len(p)], key)

\* assignment_copy = assignment.copy(); assignment_copy[variable] = value
Extend(assignment, variable, value) ==
    [v \in DOMAIN assignment \cup {variable} |->
        IF v = variable THEN value ELSE assignment[v]]

\* assignment_complete(assignment)
assignment_complete(doms, assignment) ==
    \A variable \in DOMAIN doms : variable \in DOMAIN assignment

\* a consistent that does not check that the words are distinct
consistent_NoDistinct(cw, assignment) ==
    IF \E variable \in DOMAIN assignment :
            variable.length # Len(assignment[variable])
    THEN FALSE
    ELSE ~ \E variable \in DOMAIN assignment :
             \E neighbour \in Neighbors(cw, variable) :
                /\ neighbour \in DOMAIN assignment
                /\ Char(assignment[variable], Overlaps(variable, neighbour)[1])
                     # Char(assignment[neighbour], Overlaps(variable, neighbour)[2])

\* a consistent that reads both words at the first variable's overlap index
consistent_SameIndex(cw, assignment) ==
    LET words == {assignment[v] : v \in DOMAIN assignment}
    IN  IF Cardinality(DOMAIN assignment) # Cardinality(words)
        THEN FALSE
        ELSE IF \E variable \in DOMAIN assignment :
                    variable.length # Len(assignment[variable])
        THEN FALSE
        ELSE ~ \E variable \in DOMAIN assignment :
                 \E neighbour \in Neighbors(cw, variable) :
                    /\ neighbour \in DOMAIN assignment
                    /\ Overlaps(variable, neighbour)[1] < neighbour.length
                    /\ Char(assignment[variable], Overlaps(variable, neighbour)[1])
                         # Char(assignment[neighbour], Overlaps(variable, neighbour)[1])

\* a consistent that counts a neighbor without a word as a conflict
consistent_UnassignedConflict(cw, assignment) ==
    LET words == {assignment[v] : v \in DOMAIN assignment}
    IN  IF Cardinality(DOMAIN assignment) # Cardinality(words)
        THEN FALSE
        ELSE IF \E variable \in DOMAIN assignment :
                    variable.length # Len(assignment[variable])
        THEN FALSE
        ELSE ~ \E variable \in DOMAIN assignment :
                 \E neighbour \in Neighbors(cw, variable) :
                    \/ neighbour \notin DOMAIN assignment
                    \/ Char(assignment[variable], Overlaps(variable, neighbour)[1])
                         # Char(assignment[neighbour], Overlaps(variable, neighbour)[2])

\* consistent(assignment)
consistent(cw, assignment) ==
    LET words == {assignment[v] : v \in DOMAIN assignment}
    IN  IF Cardinality(DOMAIN assignment) # Cardinality(words)
        THEN FALSE
        ELSE IF \E variable \in DOMAIN assignment :
                    variable.length # Len(assignment[variable])
        THEN FALSE
        ELSE ~ \E variable \in DOMAIN assignment :
                 \E neighbour \in Neighbors(cw, variable) :
                    /\ neighbour \in DOMAIN assignment
                    /\ Char(assignment[variable], Overlaps(variable, neighbour)[1])
                         # Char(assignment[neighbour], Overlaps(variable, neighbour)[2])

\* a sorted_list that does not leave out the assigned variables
SortedList_AllVariables(doms, ord, assignment) ==
    LET sizes == [variable \in DOMAIN doms |-> Cardinality(doms[variable])]
    IN  StableSort(ord, sizes)

\* select_unassigned_variable: sorted_list, the unassigned variables in dict
\* order, stably sorted by the size of their domains
SortedList(doms, ord, assignment) ==
    LET Unassigned(variable) == variable \notin DOMAIN assignment
        sizes == [variable \in DOMAIN doms |-> Cardinality(doms[variable])]
    IN  StableSort(SelectSeq(ord, Unassigned), sizes)

\* select_unassigned_variable(assignment): sorted_list[0], as a list of one
\* variable; the empty list when sorted_list[0] raises IndexError
select_unassigned_variable(doms, ord, assignment) ==
    LET sorted_list == SortedList(doms, ord, assignment)
    IN  IF Len(sorted_list) = 0 THEN <<>> ELSE <<sorted_list[1]>>

\* order_domain_values: what the loop over `neighbours` adds to `eliminated`
\* for one word of var's domain
RECURSIVE EliminatedOver(_, _, _, _, _)
EliminatedOver(doms, var, assignment, word, neighbours) ==
    IF neighbours = {} THEN 0
    ELSE LET neighbour == CHOOSE n \in neighbours : TRUE
             counted ==
                IF neighbour \in DOMAIN assignment
                THEN 0
                ELSE Cardinality({neighbour_word \in doms[neighbour] :
                        Char(word, Overlaps(var, neighbour)[1])
                          # Char(neighbour_word, Overlaps(var, neighbour)[2])})
         IN  counted + EliminatedOver(doms, var, assignment, word, neighbours \ {neighbour})

\* word_dict[word] of order_domain_values
Eliminated(cw, doms, var, assignment, word) ==
    EliminatedOver(doms, var, assignment, word, Neighbors(cw, var))

\* an order_domain_values that returns the words in the order it met them
order_domain_values_Unsorted(cw, doms, var, assignment, iteration) == iteration

\* order_domain_values(var, assignment), when the set self.domains[var] is
\* iterated in the order `iteration`
order_domain_values(cw, doms, var, assignment, iteration) ==
    LET word_dict == [word \in doms[var] |-> Eliminated(cw, doms, var, assignment, word)]
    IN  StableSort(iteration, word_dict)

\* a call of backtrack that does not return at once
Frame(assignment) ==
    LET variable == select_unassigned_variable(domains, order, assignment)[1]
    IN  [assignment |-> assignment, variable |-> variable, todo |-> domains[variable]]

Returned(assignment) == [ret |-> "assignment", assignment |-> assignment]

ReturnedNone == [ret |-> None, assignment |-> EmptyAssignment]

\* solve's `return self.backtrack(dict())`: the outermost call, reached when
\* self.ac3() returned; an exception raised in ac3 leaves solve instead
backtrack_call ==
    /\ pc = "ac3ret"
    /\ ac3ret # "UnboundLocalError"
    /\ IF Cardinality(DOMAIN EmptyAssignment) = Cardinality(DOMAIN domains)
       THEN /\ result' = Returned(EmptyAssignment)
            /\ stack' = <<>>
            /\ pc' = "done"
       ELSE /\ stack' = <<Frame(EmptyAssignment)>>
            /\ pc' = "backtrack"
            /\ UNCHANGED result
    /\ UNCHANGED <<crossword, order, domains, queue, ac3ret, last>>

\* a for loop pass without `assignment.copy()`: the value is written into
\* the one dict that every call on the stack holds
backtrack_try_NoCopy ==
    /\ pc = "backtrack"
    /\ LET top == stack[Len(stack)]
       IN  \E value \in top.todo :
            LET assignment_copy == Extend(top.assignment, top.variable, value)
                rest == [k \in 1..Len(stack) |->
                           [assignment |-> assignment_copy,
                            variable |-> stack[k].variable,
                            todo |-> IF k = Len(stack) THEN top.todo \ {value}
                                     ELSE stack[k].todo]]
            IN  IF consistent(crossword, assignment_copy)
                THEN IF Cardinality(DOMAIN assignment_copy) = Cardinality(DOMAIN domains)
                     THEN /\ result' = Returned(assignment_copy)
                          /\ stack' = <<>>
                          /\ pc' = "done"
                     ELSE /\ stack' = Append(rest, Frame(assignment_copy))
                          /\ UNCHANGED <<result, pc>>
                ELSE /\ stack' = rest
                     /\ UNCHANGED <<result, pc>>
    /\ UNCHANGED <<crossword, order, domains, queue, ac3ret, last>>

\* one pass of the for loop of the innermost call: the next value of the
\* domain, the consistency check and the recursive call
backtrack_try ==
    /\ pc = "backtrack"
    /\ LET top == stack[Len(stack)]
       IN  \E value \in top.todo :
            LET assignment_copy == Extend(top.assignment, top.variable, value)
                rest == [stack EXCEPT ![Len(stack)].todo = top.todo \ {value}]
            IN  IF consistent(crossword, assignment_copy)
                THEN IF Cardinality(DOMAIN assignment_copy) = Cardinality(DOMAIN domains)
                     THEN \* the callee returns its assignment, every caller returns it on
                          /\ result' = Returned(assignment_copy)
                          /\ stack' = <<>>
                          /\ pc' = "done"
                     ELSE /\ stack' = Append(rest, Frame(assignment_copy))
                          /\ UNCHANGED <<result, pc>>
                ELSE /\ stack' = rest
                     /\ UNCHANGED <<result, pc>>
    /\ UNCHANGED <<crossword, order, domains, queue, ac3ret, last>>

\* the for loop of the innermost call is over: return None
backtrack_fail ==
    /\ pc = "backtrack"
    /\ stack[Len(stack)].todo = {}
    /\ stack' = SubSeq(stack, 1, Len(stack) - 1)
    /\ IF Len(stack) = 1
       THEN result' = ReturnedNone /\ pc' = "done"
       ELSE UNCHANGED <<result, pc>>
    /\ UNCHANGED <<crossword, order, domains, queue, ac3ret, last>>

\* the partial assignments over the current domains
Assignments(doms) ==
    UNION {[S -> UNION {doms[v] : v \in S}] : S \in SUBSET DOMAIN doms}

AssignmentsIn(doms) ==
    {a \in Assignments(doms) : \A v \in DOMAIN a : a[v] \in doms[v]}

\* select_unassigned_variable(assignment) called directly
select_call(assignment) ==
    /\ pc = "node"
    /\ LET r == select_unassigned_variable(domains, order, assignment)
       IN  last' = [op |-> "select_unassigned_variable", assignment |-> assignment,
                    ret |-> r, raised |-> IF Len(r) = 0 THEN "IndexError" ELSE None]
    /\ pc' = "returned"
    /\ UNCHANGED <<crossword, order, domains, queue, ac3ret, stack, result>>

\* order_domain_values(var, assignment) called directly
order_call(var, assignment) ==
    /\ pc = "node"
    /\ \E iteration \in Perms(domains[var]) :
        last' = [op |-> "order_domain_values", var |-> var, assignment |-> assignment,
                 ret |-> order_domain_values(crossword, domains, var, assignment, iteration)]
    /\ pc' = "returned"
    /\ UNCHANGED <<crossword, order, domains, queue, ac3ret, stack, result>>

\* consistent(assignment) called directly
consistent_call(assignment) ==
    /\ pc = "node"
    /\ last' = [op |-> "consistent", assignment |-> assignment,
                ret |-> consistent(crossword, assignment)]
    /\ pc' = "returned"
    /\ UNCHANGED <<crossword, order, domains, queue, ac3ret, stack, result>>

----------------------------------------------------------------------------
(* Specifications *)

\* solve(): enforce_node_consistency(); ac3(); return backtrack(dict())
Next ==
    \/ enforce_node_consistency
    \/ (pc = "node" /\ ac3_call(ArcsNone))
    \/ ac3_iterate
    \/ ac3_exit
    \/ backtrack_call
    \/ backtrack_try
    \/ backtrack_fail

Spec == Init /\ [][Next]_vars

\* solve() run by an interpreter that does not stop while a step is possible
SpecFair == Spec /\ WF_vars(Next)

\* enforce_node_consistency(), then revise and ac3 called in any order
NextApi ==
    \/ enforce_node_consistency
    \/ (Idle /\ \E x, y \in crossword.variables : x # y /\ revise_call(x, y))
    \/ (Idle /\ \E arcs \in ArcArgs(crossword) : ac3_call(arcs))
    \/ ac3_iterate
    \/ ac3_exit

SpecApi == InitApi /\ [][NextApi]_vars

\* enforce_node_consistency(), then one call of select_unassigned_variable
NextSelect ==
    \/ enforce_node_consistency
    \/ \E assignment \in AssignmentsIn(domains) : select_call(assignment)

SpecSelect == Init /\ [][NextSelect]_vars

\* enforce_node_consistency(), then one call of order_domain_values for a
\* variable the assignment does not hold
NextOrder ==
    \/ enforce_node_consistency
    \/ \E var \in crossword.variables :
         \E assignment \in AssignmentsIn(domains) :
            var \notin DOMAIN assignment /\ order_call(var, assignment)

SpecOrder == InitOrdered /\ [][NextOrder]_vars

\* every step that solving is made of, in any order the object allows:
\* enforce_node_consistency, revise and ac3 calls, then the search
NextSteps ==
    \/ NextApi
    \/ backtrack_call
    \/ backtrack_try
    \/ backtrack_fail

SpecSteps == InitApi /\ [][NextSteps]_vars

\* enforce_node_consistency(), then ac3() called again and again with nothing
\* else in between
NextRepeat ==
    \/ enforce_node_consistency
    \/ (Idle /\ ac3_call(ArcsNone))
    \/ ac3_iterate
    \/ ac3_exit

SpecRepeat == Init /\ [][NextRepeat]_vars

\* enforce_node_consistency(), then one call of consistent for an assignment
\* of words of the word list, of any length, to some of the variables
NextConsistent ==
    \/ enforce_node_consistency
    \/ \E assignment \in Assignments(InitDomains(crossword)) :
         consistent_call(assignment)

SpecConsistent == InitOrdered /\ [][NextConsistent]_vars

----------------------------------------------------------------------------
(* Properties *)

\* a complete assignment that solves the crossword: an entry for every
\* variable, distinct words of the right lengths that agree where slots cross
ValidAssignment(cw, a) ==
    /\ DOMAIN a = cw.variables
    /\ \A u, v \in cw.variables : u # v => a[u] # a[v]
    /\ \A v \in cw.variables : Len(a[v]) = v.length
    /\ \A arc \in Arcs(cw) :
         Char(a[arc[1]], Overlaps(arc[1], arc[2])[1])
           = Char(a[arc[2]], Overlaps(arc[1], arc[2])[2])

\* every valid complete assignment over the word list
Solutions(cw) == {a \in [cw.variables -> cw.words] : ValidAssignment(cw, a)}

\* C1: an assignment returned by solve() covers every variable, with pairwise
\* distinct words, each of its variable's length, that agree at every overlap
C1_ReturnedAssignmentValid ==
    result.ret = "assignment" => ValidAssignment(crossword, result.assignment)

\* solve() returned an assignment of a grid with three slots
C1_Witness ==
    /\ pc = "done"
    /\ result.ret = "assignment"
    /\ Cardinality(crossword.variables) = 3
    /\ Cardinality(DOMAIN result.assignment) = 3

\* C2: when solve() returns None no valid assignment exists; when one exists
\* solve() returns one (so the only one, when there is exactly one)
C2_NoneOnlyWhenUnsatisfiable ==
    pc = "done" =>
        /\ result.ret = None => Solutions(crossword) = {}
        /\ Solutions(crossword) # {} =>
                result.ret = "assignment" /\ result.assignment \in Solutions(crossword)

\* solve() returned None for a grid of crossing slots whose domains all held
\* words to try
C2_Witness ==
    /\ pc = "done"
    /\ result.ret = None
    /\ Cardinality(crossword.variables) >= 2
    /\ \A v \in crossword.variables : Cardinality(domains[v]) >= 2

\* every word of x's domain has a word of y's domain that agrees with it at the
\* overlap of (x, y)
Supported(doms, x, y) ==
    \A w \in doms[x] : \E w2 \in doms[y] :
        Char(w, Overlaps(x, y)[1]) = Char(w2, Overlaps(x, y)[2])

ArcConsistent(cw, doms) == \A arc \in Arcs(cw) : Supported(doms, arc[1], arc[2])

\* ac3 has returned (or raised)
Ac3Returned == ac3ret \notin {"unset", "running"}

\* C3: when ac3(), called with no arcs on node-consistent domains, reports
\* success, every word of every domain has a supporting word in the domain of
\* every neighbor, also where the overlap index into x is 0
C3_ArcConsistentAfterSuccess ==
    ac3ret = "True" => ArcConsistent(crossword, domains)

\* C4: after construction and enforce_node_consistency, the domain of every
\* variable is exactly the words of the word list that have its length
C4_NodeConsistency ==
    last.op = "enforce_node_consistency" =>
        \A v \in crossword.variables :
            domains[v] = {w \in crossword.words : Len(w) = v.length}

\* node consistency removed a word from a domain and kept two
C4_Witness ==
    /\ last.op = "enforce_node_consistency"
    /\ \E v \in crossword.variables :
        /\ Cardinality(domains[v]) = 2
        /\ Cardinality(last.pre[v]) = 3

\* C5: after revise(x, y) for overlapping x and y, x's domain is exactly the
\* words of its previous domain that have a word of y's domain agreeing at the
\* overlap indices (i, j), and the call returns True iff a word was removed;
\* for every overlap, i = 0 included
C5_ReviseContract ==
    (last.op = "revise" /\ last.raised = None) =>
        LET x == last.x
            y == last.y
            i == Overlaps(x, y)[1]
            j == Overlaps(x, y)[2]
        IN  /\ domains[x] = {w \in last.pre[x] :
                    \E w2 \in domains[y] : Char(w, i) = Char(w2, j)}
            /\ last.ret <=> (domains[x] # last.pre[x])

\* C6: every call of ac3 returns a boolean: True with arc consistency enforced
\* and no domain empty, False with some domain empty; on every input, a grid
\* without arcs included
C6_Ac3ReturnsBoolean ==
    Ac3Returned =>
        \/ /\ ac3ret = "True"
           /\ ArcConsistent(crossword, domains)
           /\ \A v \in crossword.variables : domains[v] # {}
        \/ /\ ac3ret = "False"
           /\ \E v \in crossword.variables : domains[v] = {}

\* C7: ac3(arcs) with a non-empty list of arcs starts from exactly that list
\* as its queue and goes on to return its boolean
C7_SuppliedArcsUsed ==
    (last.op = "ac3" /\ ~NotArcs(last.arcs)) =>
        /\ ac3ret \in {"running", "True", "False"}
        /\ pc = "ac3" => queue = last.arcs.list

\* C8: ac3() starts with every ordered pair of neighbors in its queue; when
\* revise(x, y) removed a word and left x's domain non-empty, every arc (z, x)
\* with z a neighbor of x other than y is enqueued; and success is only
\* reported with the queue empty
C8_PropagationToEmptyQueue ==
    /\ pc = "ac3" =>
            Range(queue) = Arcs(crossword) /\ Len(queue) = Cardinality(Arcs(crossword))
    /\ (last.op = "revise" /\ last.ret /\ domains[last.x] # {}) =>
            \A z \in Neighbors(crossword, last.x) \ {last.y} :
                <<z, last.x>> \in Range(queue)
    /\ ac3ret = "True" => Len(queue) = 0

\* the number of neighbors of a variable
Degree(cw, v) == Cardinality(Neighbors(cw, v))

\* C9: for an incomplete assignment, select_unassigned_variable returns an
\* unassigned variable with the smallest domain and, among the unassigned
\* variables with a domain of that size, the most neighbors
C9_MrvWithDegree ==
    (last.op = "select_unassigned_variable"
        /\ DOMAIN last.assignment # crossword.variables) =>
        /\ Len(last.ret) = 1
        /\ LET v == last.ret[1]
               unassigned == crossword.variables \ DOMAIN last.assignment
           IN  /\ v \in unassigned
               /\ \A u \in unassigned : Cardinality(domains[u]) >= Cardinality(domains[v])
               /\ \A u \in unassigned :
                    Cardinality(domains[u]) = Cardinality(domains[v])
                        => Degree(crossword, u) <= Degree(crossword, v)

\* the (neighbor, word) pairs that word w of var rules out: the neighbor is
\* not assigned and its word differs from w at the overlap
RuledOut(cw, doms, var, assignment, w) ==
    {p \in UNION {{<<n, w2>> : w2 \in doms[n]} :
                    n \in Neighbors(cw, var) \ DOMAIN assignment} :
        Char(w, Overlaps(var, p[1])[1]) # Char(p[2], Overlaps(var, p[1])[2])}

\* C10: order_domain_values(var, assignment) returns every word of var's
\* domain exactly once, in ascending order of the number of (unassigned
\* neighbor, word) pairs the word rules out
C10_LeastConstrainingOrder ==
    last.op = "order_domain_values" =>
        LET r == last.ret
            Count(w) == Cardinality(RuledOut(crossword, domains, last.var, last.assignment, w))
        IN  /\ Len(r) = Cardinality(domains[last.var])
            /\ Range(r) = domains[last.var]
            /\ \A a, b \in 1..Len(r) : a < b => Count(r[a]) <= Count(r[b])

\* the words were returned for a variable with an assigned and an unassigned
\* neighbor, and the first word rules out fewer pairs than the last
C10_Witness ==
    /\ last.op = "order_domain_values"
    /\ Neighbors(crossword, last.var) \cap DOMAIN last.assignment # {}
    /\ Neighbors(crossword, last.var) \ DOMAIN last.assignment # {}
    /\ Len(last.ret) >= 2
    /\ Cardinality(RuledOut(crossword, domains, last.var, last.assignment, last.ret[1]))
         < Cardinality(RuledOut(crossword, domains, last.var, last.assignment,
                                last.ret[Len(last.ret)]))

\* the words of a frame's domain that its for loop has already taken
Tried(frame) == domains[frame.variable] \ frame.todo

\* C11: in every call of backtrack, the words of the selected variable are
\* tried in least-constraining order: no word is tried while a word of the
\* same domain that rules out strictly fewer values of the unassigned
\* neighbors' domains is still waiting.
C11_TriedInLeastConstrainingOrder ==
    \A k \in 1..Len(stack) :
        \A t \in Tried(stack[k]), u \in stack[k].todo :
            Cardinality(RuledOut(crossword, domains, stack[k].variable,
                                 stack[k].assignment, t))
                <= Cardinality(RuledOut(crossword, domains, stack[k].variable,
                                        stack[k].assignment, u))

\* C12: consistent(assignment) returns True exactly when the assigned words
\* are pairwise distinct, every assigned word has the length of its variable,
\* and every two assigned variables that cross hold the same letter at their
\* overlap; a neighbor without a word imposes no condition.
C12_ConsistentIffNoConflict ==
    last.op = "consistent" =>
        LET a == last.assignment
        IN  last.ret =
              (/\ \A u, v \in DOMAIN a : u # v => a[u] # a[v]
               /\ \A v \in DOMAIN a : Len(a[v]) = v.length
               /\ \A u, v \in DOMAIN a :
                    (u # v /\ Overlaps(u, v) # NoOverlap)
                        => a[u][Overlaps(u, v)[1] + 1] = a[v][Overlaps(u, v)[2] + 1])

\* consistent returned True for two crossing variables while a third variable
\* that crosses one of them has no word
C12_Witness ==
    /\ last.op = "consistent"
    /\ last.ret = TRUE
    /\ \E u, v \in DOMAIN last.assignment : u # v /\ Overlaps(u, v) # NoOverlap
    /\ \E u \in DOMAIN last.assignment :
         Neighbors(crossword, u) \ DOMAIN last.assignment # {}

\* C13: across every step of solving (enforce_node_consistency, each revise,
\* each iteration of ac3, each step of backtrack) every variable's domain
\* after the step is a subset of its domain before the step.
C13_DomainsOnlyShrink ==
    [][\A v \in DOMAIN domains : domains'[v] \subseteq domains[v]]_vars

\* a revise made by ac3 took a word out of a domain that node consistency
\* had already shrunk, and the search has started on the result
C13_Witness ==
    /\ pc = "backtrack"
    /\ last.op = "revise"
    /\ domains[last.x] # last.pre[last.x]
    /\ last.pre[last.x] # crossword.words

\* an ac3() call has returned, and the call before it had returned True
RanAgainAfterSuccess ==
    /\ pc = "ac3ret"
    /\ last.op = "revise"
    /\ last.prev = "True"

\* C14: when ac3() has returned True and is run again at once, the second run
\* removes no word from any domain and returns True again, whatever the
\* order in which the arcs are taken.
C14_Ac3Idempotent ==
    RanAgainAfterSuccess => (domains = last.pre /\ ac3ret = "True")

\* the second run returned after a first run that had removed a word
C14_Witness ==
    /\ RanAgainAfterSuccess
    /\ domains # NodeConsistent(crossword, InitDomains(crossword))

\* a step that leaves the domains and the assignment of every call that
\* stays on the stack as they were
SharedStateKept ==
    /\ domains' = domains
    /\ \A k \in 1..Len(stack) :
         k <= Len(stack') => stack'[k].assignment = stack[k].assignment

\* C15: no step of backtrack changes the domains, and no step changes the
\* assignment held by a call that is still on the stack: each candidate is
\* written into a fresh copy, so a caller finds its assignment as it was when
\* a branch below it has failed.
C15_BacktrackLeavesSharedState ==
    [][(pc \in {"ac3ret", "backtrack"}) => SharedStateKept]_vars

\* the outermost call is back in its loop after the call it made for its
\* first candidate returned None
C15_Witness ==
    /\ pc = "backtrack"
    /\ Len(stack) = 1
    /\ stack[1].assignment = EmptyAssignment
    /\ Cardinality(crossword.variables) >= 2
    /\ Cardinality(Tried(stack[1])) = 1
    /\ stack[1].todo # {}

\* no word of x's length and word of y's length hold the same letter where
\* x and y cross
NoAgreeingPair(cw, x, y) ==
    ~ \E w1, w2 \in cw.words :
        /\ Len(w1) = x.length
        /\ Len(w2) = y.length
        /\ w1[Overlaps(x, y)[1] + 1] = w2[Overlaps(x, y)[2] + 1]

\* C16: on a grid of two crossing variables that both have words of their
\* length, but no pair of such words agrees at the overlap, ac3() empties a
\* domain and returns
\* False, for every overlap index pair and every order of the two arcs, and
\* solve() returns None.
C16_NoAgreeingPairFails ==
    \A x, y \in crossword.variables :
        (/\ Cardinality(crossword.variables) = 2
         /\ x # y
         /\ Overlaps(x, y) # NoOverlap
         /\ \E w \in crossword.words : Len(w) = x.length
         /\ \E w \in crossword.words : Len(w) = y.length
         /\ NoAgreeingPair(crossword, x, y))
        => /\ Ac3Returned =>
                (ac3ret = "False" /\ \E v \in crossword.variables : domains[v] = {})
           /\ pc = "done" => result.ret = None

\* C17: in every run of solve() in which ac3() returns False, solve() returns
\* None, although solve() never looks at what ac3() returned.
C17_Ac3FailureGivesNone ==
    (pc = "done" /\ ac3ret = "False") => result.ret = None

\* solve() has returned after ac3() returned False on a grid where another
\* variable still had words to try
C17_Witness ==
    /\ pc = "done"
    /\ ac3ret = "False"
    /\ result = ReturnedNone
    /\ \E v \in crossword.variables : domains[v] # {}

\* C18: on every grid and word list, including an unsatisfiable puzzle, a
\* variable with no word of its length and a grid of no or one variable,
\* solve() runs to its return without raising, and what it returns is a
\* complete assignment or None.
C18_SolveCompletesWithoutError ==
    /\ pc # "done" => ENABLED Next
    /\ ac3ret # "UnboundLocalError"
    /\ last.op = "revise" => last.raised = None
    /\ pc = "done" =>
         \/ result = ReturnedNone
         \/ /\ result.ret = "assignment"
            /\ DOMAIN result.assignment = crossword.variables

\* solve() has returned None on a grid where one variable has words of its
\* length and another has none
C18_Witness ==
    /\ pc = "done"
    /\ result = ReturnedNone
    /\ \E v \in crossword.variables : \A w \in crossword.words : Len(w) # v.length
    /\ \E v \in crossword.variables : \E w \in crossword.words : Len(w) = v.length

\* the weight of one untried word of the call at depth k, on a grid of n
\* variables with d words: one more than all deeper calls can weigh together
RECURSIVE Weight(_, _, _)
Weight(k, n, d) == IF k >= n THEN 1 ELSE (d + 1) * Weight(k + 1, n, d) + 1

\* what is left of the search: every call on the stack counts 1, and each of
\* its untried words counts the weight of its depth
RECURSIVE Rank(_, _, _)
Rank(st, n, d) ==
    IF Len(st) = 0 THEN 0
    ELSE Rank(SubSeq(st, 1, Len(st) - 1), n, d)
           + Cardinality(st[Len(st)].todo) * Weight(Len(st), n, d) + 1

SearchLeft == Rank(stack, Cardinality(crossword.variables),
                   Cardinality(crossword.words))

\* the calls on the stack: never more than there are variables, the call at
\* depth k holds k - 1 entries, and each call was given its caller's
\* assignment with one entry more, for the variable the caller selected,
\* which the caller's assignment did not hold
RecursionShape ==
    /\ Len(stack) <= Cardinality(crossword.variables)
    /\ \A k \in 1..Len(stack) :
         /\ Cardinality(DOMAIN stack[k].assignment) = k - 1
         /\ stack[k].variable \in crossword.variables \ DOMAIN stack[k].assignment
         /\ k > 1 =>
              /\ DOMAIN stack[k].assignment
                    = DOMAIN stack[k - 1].assignment \cup {stack[k - 1].variable}
              /\ \A v \in DOMAIN stack[k - 1].assignment :
                    stack[k].assignment[v] = stack[k - 1].assignment[v]

\* C19: backtracking terminates and never recurses deeper than the number of
\* variables: every recursive call receives its caller's assignment with
\* exactly one more entry, for a variable that was unassigned, and every step
\* of the search strictly decreases a natural number (what is left of the
\* search), and solve() returns.
C19_BoundedDepthAndProgress ==
    /\ []RecursionShape
    /\ [][(pc = "backtrack") => (SearchLeft' < SearchLeft)]_vars
    /\ <>(pc = "done")

\* the recursion is as deep as the grid has variables, three, and the
\* innermost call has already tried a word
C19_Witness ==
    /\ pc = "backtrack"
    /\ Len(stack) = 3
    /\ Len(stack) = Cardinality(crossword.variables)
    /\ Tried(stack[3]) # {}

\* C20: propagation preserves solutions: for every complete assignment that
\* solves the crossword and every variable v, the word the assignment gives v
\* is still in v's domain after any sequence of enforce_node_consistency,
\* revise and ac3 calls.
C20_SolutionsSurvivePropagation ==
    \A a \in Solutions(crossword) :
        \A v \in crossword.variables : a[v] \in domains[v]

\* a revise has just removed a word from a domain of a crossword that has a
\* solution
C20_Witness ==
    /\ last.op = "revise"
    /\ last.ret = TRUE
    /\ domains[last.x] # last.pre[last.x]
    /\ Solutions(crossword) # {}

\* C21: a call revise(x, y) changes at most x's domain: the domain of y and
\* of every other variable is after the call what it was before, whether a
\* word was removed or not (and also when the call raises).
C21_ReviseFrame ==
    last.op = "revise" =>
        \A v \in crossword.variables \ {last.x} : domains[v] = last.pre[v]

\* on a grid of three variables a revise has removed a word of x, and y still
\* holds the words it had
C21_Witness ==
    /\ last.op = "revise"
    /\ Cardinality(crossword.variables) = 3
    /\ domains[last.x] # last.pre[last.x]
    /\ domains[last.y] # {}
    /\ \E v \in crossword.variables \ {last.x, last.y} : domains[v] # {}

====
